---- MODULE Spec2Model ----
(***************************************************************************)
(* A model of the Highcharts data layer: the DataStore registry and column *)
(* metadata (js/Data/Stores/DataStore.js), the DataParser conversion       *)
(* protocol (ts/Data/Parsers/DataParser.ts) and the DataConverter date     *)
(* parsing (DataConverter.js).                                             *)
(*                                                                         *)
(* JavaScript values are modelled by what the code does with them:         *)
(*  - a plain object is a record [keys, val]: `keys` is the sequence of    *)
(*    own property names in insertion order, `val` the value of each;      *)
(*    Object.keys() lists integer-like names first (ascending) and the     *)
(*    other names in insertion order;                                      *)
(*  - a cell value, a row identifier and a number are strings ("3", "7",   *)
(*    "p1", "key-1"), `undefined` is the string "undefined";               *)
(*  - an array is a sequence; a hole of a sparse array is HOLE;            *)
(*  - a string handed to parseDate is the sequence of its digit groups     *)
(*    (each with its length and its number) when it is digit groups joined *)
(*    by `-`, `/` or `.`, and carries what Date.parse may return for it;   *)
(*  - a timestamp is counted in minutes (one unit is 60000 ms); NaN is a   *)
(*    result that is not `ok`.                                             *)
(***************************************************************************)
EXTENDS Integers, Sequences, FiniteSets, TLC

VARIABLES
    registry,       \* DataStore.registry: the own properties of the object
    lastAdd,        \* the last DataStore.addStore call and what it returned
    columnsMeta,    \* store.metadata.columns
    storeTable,     \* store.table
    lastStore,      \* the last call on the store and what it returned
    listeners,      \* the callbacks registered on the store, in registration order
    handles,        \* how many unregister functions on() has returned
    emitted,        \* the callback invocations of the last load() call
    storeClass,     \* store.constructor
    json,           \* the last result of toJSON(), as its holder has changed it
    input,          \* the arguments the caller of the parser functions holds
    table,          \* the DataTable the parser functions last built
    tableFrom,      \* the call that built `table`, with its arguments
    columns,        \* the last result of getColumnsFromTable
    seriesOut,      \* the last result of getSeriesOptionsFromTable
    keyCounter,     \* the counter behind U.uniqueKey()
    dateFormat,     \* converter.options.dateFormat
    parseDateFn,    \* whether a parseDate callback was given to the constructor
    env,            \* the host: the current year and the time zone offset
    lastParse,      \* the last parseDate call and what it returned
    decimalPoint,   \* converter.options.decimalPoint ("" when not configured)
    text,           \* the string the caller of asNumber and guessType holds
    lastCall,       \* the last asNumber or guessType call and what it returned
    samples,        \* the arguments the caller of deduceDateFormat holds
    lastDeduce      \* the last deduceDateFormat call and what it returned

registryVars == <<registry, lastAdd>>
lifecycleVars == <<listeners, handles, emitted, storeClass, json>>
storeVars == <<columnsMeta, storeTable, lastStore, lifecycleVars>>
parserVars == <<input, table, tableFrom, columns, seriesOut, keyCounter>>
converterVars == <<dateFormat, parseDateFn, env, lastParse, decimalPoint, text,
                   lastCall, samples, lastDeduce>>
vars == <<registry, lastAdd, columnsMeta, storeTable, lastStore, listeners,
          handles, emitted, storeClass, json, input,
          table, tableFrom, columns, seriesOut, keyCounter, dateFormat, parseDateFn,
          env, lastParse, decimalPoint, text, lastCall, samples, lastDeduce>>

(***************************************************************************)
(* JavaScript objects and arrays                                           *)
(***************************************************************************)

UNDEFINED == "undefined"

HOLE == "<empty>"

Range(s) == {s[i] : i \in 1..Len(s)}

\* The sequences over S of length at most n without a repeated element.
DistinctSeqs(S, n) ==
    {s \in UNION {[1..k -> S] : k \in 0..n} :
        \A i, j \in 1..Len(s) : i # j => s[i] # s[j]}

\* The names JavaScript treats as array indices, with their number.
IndexNames == {"0", "1", "2"}

IndexOfName(name) ==
    CASE name = "0" -> 0
      [] name = "1" -> 1
      [] name = "2" -> 2
      [] OTHER -> -1

\* `${j}` for the j of a loop.
NameOfIndex(j) ==
    CASE j = 0 -> "0"
      [] j = 1 -> "1"
      [] j = 2 -> "2"
      [] j = 3 -> "3"
      [] j = 4 -> "4"
      [] OTHER -> "n"

EmptyObject == [keys |-> <<>>, val |-> <<>>]

HasOwn(o, k) == k \in Range(o.keys)

\* o[k] for an object without inherited properties of that name.
Get(o, k) == IF HasOwn(o, k) THEN o.val[k] ELSE UNDEFINED

\* o[k] = v: a new property is appended to the insertion order.
Put(o, k, v) ==
    IF HasOwn(o, k)
    THEN [o EXCEPT !.val = [x \in DOMAIN o.val |-> IF x = k THEN v ELSE o.val[x]]]
    ELSE [keys |-> Append(o.keys, k),
          val |-> [x \in Range(o.keys) \cup {k} |->
                      IF x = k THEN v ELSE o.val[x]]]

\* The elements of a sequence that satisfy a test, in order.
RECURSIVE SelectNames(_, _)
SelectNames(s, S) ==
    IF s = <<>> THEN <<>>
    ELSE IF Head(s) \in S THEN <<Head(s)>> \o SelectNames(Tail(s), S)
    ELSE SelectNames(Tail(s), S)

\* The integer-like names among S, ascending.
RECURSIVE AscendingIndexNames(_)
AscendingIndexNames(S) ==
    IF S \cap IndexNames = {} THEN <<>>
    ELSE LET m == CHOOSE x \in S \cap IndexNames :
                     \A y \in S \cap IndexNames : IndexOfName(x) <= IndexOfName(y)
         IN <<m>> \o AscendingIndexNames(S \ {m})

\* Object.keys(o): integer-like names ascending, then the others as inserted.
ObjectKeys(o) ==
    AscendingIndexNames(Range(o.keys))
        \o SelectNames(o.keys, Range(o.keys) \ IndexNames)

\* array.indexOf(x), 0-based, -1 when absent.
IndexOf(s, x) ==
    IF \E i \in 1..Len(s) : s[i] = x
    THEN (CHOOSE i \in 1..Len(s) : s[i] = x /\ \A j \in 1..(i - 1) : s[j] # x) - 1
    ELSE -1

Reverse(s) == [i \in 1..Len(s) |-> s[Len(s) + 1 - i]]

(***************************************************************************)
(* DataStore registry                                                      *)
(***************************************************************************)

\* The store classes of the model. `text` is the identifier the class's
\* toString() shows after "function", as a sequence of word pieces; `fn` tells
\* whether toString() starts with "function <identifier>(" at all.
StoreClasses ==
    { [cid |-> "c1", fn |-> TRUE,  text |-> <<"CSV", "DataStore">>],
      [cid |-> "c2", fn |-> TRUE,  text |-> <<"CSV">>],
      [cid |-> "c3", fn |-> TRUE,  text |-> <<"HTMLTable", "DataStore">>],
      [cid |-> "c4", fn |-> TRUE,  text |-> <<"DataStore">>],
      [cid |-> "c5", fn |-> FALSE, text |-> <<"Google">>],
      [cid |-> "c6", fn |-> TRUE,  text |-> <<"constructor">>],
      [cid |-> "c7", fn |-> TRUE,  text |-> <<"Google", "DataStore">>] }

\* What an object literal inherits from Object.prototype.
ObjectPrototype == [constructor |-> "Object", toString |-> "Object.prototype.toString"]

\* DataStore.getName: group 1 of /^function\s+(\w*?)(?:DataStore)?\s*\(/, or ''.
getName(dataStore) ==
    IF ~dataStore.fn THEN <<>>
    ELSE IF Len(dataStore.text) > 0
            /\ dataStore.text[Len(dataStore.text)] = "DataStore"
    THEN SubSeq(dataStore.text, 1, Len(dataStore.text) - 1)
    ELSE dataStore.text

\* registry[name] of the object literal DataStore.registry = {}.
registryLookup(reg, name) ==
    IF name \in DOMAIN reg THEN reg[name].cid
    ELSE IF Len(name) = 1 /\ name[1] \in DOMAIN ObjectPrototype
    THEN ObjectPrototype[name[1]]
    ELSE UNDEFINED

\* DataStore.getStore
getStore(name) == registryLookup(registry, name)

\* DataStore.getAllStoreNames
getAllStoreNames == DOMAIN registry

addStore(dataStore) ==
    LET name == getName(dataStore)
    IN IF registryLookup(registry, name) # UNDEFINED
       THEN /\ lastAdd' = [cls |-> dataStore.cid, name |-> name, ret |-> FALSE,
                           registered |-> name \in DOMAIN registry]
            /\ UNCHANGED registry
       ELSE /\ registry' = [n \in DOMAIN registry \cup {name} |->
                               IF n = name THEN dataStore ELSE registry[n]]
            /\ lastAdd' = [cls |-> dataStore.cid, name |-> name, ret |-> TRUE,
                           registered |-> name \in DOMAIN registry]

AddStore ==
    /\ \E dataStore \in StoreClasses : addStore(dataStore)
    /\ UNCHANGED <<storeVars, parserVars, converterVars>>

NoCall == [cls |-> "none", name |-> <<>>, ret |-> FALSE, registered |-> FALSE]

InitRegistry ==
    /\ registry = <<>>
    /\ lastAdd = NoCall

(***************************************************************************)
(* DataTable and DataTableRow, as far as the parser and the store use them *)
(***************************************************************************)

\* U.uniqueKey(): a new string on every call.
KeyNames == <<"key-0", "key-1", "key-2", "key-3", "key-4", "key-5", "key-6",
              "key-7", "key-8", "key-9", "key-10", "key-11">>

uniqueKey(counter) == KeyNames[counter + 1]

\* o without its property k.
Delete(o, k) ==
    [keys |-> SelectNames(o.keys, Range(o.keys) \ {k}),
     val |-> [x \in Range(o.keys) \ {k} |-> o.val[x]]]

\* new DataTableRow(cells): the identifier is the `id` of the cells when they
\* give one, and a generated one otherwise; `auto` tells which.
DataTableRow(cells, counter) ==
    IF HasOwn(cells, "id")
    THEN [id |-> cells.val["id"], cells |-> Delete(cells, "id"), auto |-> FALSE]
    ELSE [id |-> uniqueKey(counter), cells |-> cells, auto |-> TRUE]

\* row.insertCell(name, value)
insertCell(row, name, value) == [row EXCEPT !.cells = Put(row.cells, name, value)]

\* row.getCellNames()
getCellNames(row) == ObjectKeys(row.cells)

\* row.getCell(name)
getCell(row, name) == Get(row.cells, name)

\* new DataTable(): no rows, no presentation order.
NewDataTable == [rows |-> <<>>, order |-> <<>>]

\* table.insertRow(row): a row whose identifier the table already holds is
\* rejected.
insertRow(t, row) ==
    IF \E i \in 1..Len(t.rows) : t.rows[i].id = row.id
    THEN t
    ELSE [t EXCEPT !.rows = Append(t.rows, row)]

\* table.getAllRows()
getAllRows(t) == t.rows

\* table.presentationState.setColumnOrder(names)
presentationSetColumnOrder(t, names) == [t EXCEPT !.order = names]

\* names.sort(table.presentationState.getColumnSorter()): the names with a
\* position in the order first, by position, then the others as they were.
sortByPresentation(names, order) ==
    SelectNames(order, Range(names))
        \o SelectNames(names, Range(names) \ Range(order))

(***************************************************************************)
(* DataParser                                                              *)
(***************************************************************************)

\* array[i] = v for a 0-based i: a write past the end leaves holes.
ArraySet(arr, i, v) ==
    [k \in 1..(IF i + 1 > Len(arr) THEN i + 1 ELSE Len(arr)) |->
        IF k = i + 1 THEN v
        ELSE IF k <= Len(arr) THEN arr[k] ELSE HOLE]

\* array[i] for a 0-based i: undefined past the end.
ArrayGet(arr, i) ==
    IF i + 1 \in 1..Len(arr) /\ arr[i + 1] # HOLE THEN arr[i + 1] ELSE UNDEFINED

\* Lines 110-114: a new column gets `undefined` for every earlier row.
PadNewColumn(rowIndex) == [k \in 1..rowIndex |-> UNDEFINED]

\* Lines 102-117: the cells of one row, cellNames[j..] on, put into the columns.
RECURSIVE putCells(_, _, _, _)
putCells(columnsObject, row, names, rowIndex) ==
    IF names = <<>> THEN columnsObject
    ELSE LET cellName == Head(names)
             withColumn ==
                 IF ~HasOwn(columnsObject, cellName)
                 THEN Put(columnsObject, cellName, PadNewColumn(rowIndex))
                 ELSE columnsObject
             written ==
                 Put(withColumn, cellName,
                     ArraySet(withColumn.val[cellName], rowIndex,
                              getCell(row, cellName)))
         IN putCells(written, row, Tail(names), rowIndex)

\* Lines 130-132: while (column.length - 1 < rowIndex) column.push(undefined)
PadToRow(column, rowIndex) ==
    [k \in 1..(IF Len(column) < rowIndex + 1 THEN rowIndex + 1 ELSE Len(column)) |->
        IF k <= Len(column) THEN column[k] ELSE UNDEFINED]

\* Lines 95-134: the rows from rowIndex on, scanned into the columns.
RECURSIVE scanRows(_, _, _)
scanRows(columnsObject, rows, rowIndex) ==
    IF rowIndex >= Len(rows) THEN columnsObject
    ELSE LET row == rows[rowIndex + 1]
             withId == Put(columnsObject, "id",
                           Append(columnsObject.val["id"], row.id))
             withCells == putCells(withId, row, getCellNames(row), rowIndex)
             padded == [withCells EXCEPT !.val =
                           [n \in DOMAIN withCells.val |->
                               PadToRow(withCells.val[n], rowIndex)]]
         IN scanRows(padded, rows, rowIndex + 1)

\* DataParser.getColumnsFromTable: the column arrays, and (for reference) the
\* name of each.
getColumnsFromTable(t, usePresentationOrder) ==
    LET columnsObject == scanRows(Put(EmptyObject, "id", <<>>), getAllRows(t), 0)
        columnNames == IF usePresentationOrder
                       THEN sortByPresentation(ObjectKeys(columnsObject), t.order)
                       ELSE ObjectKeys(columnsObject)
    IN [names |-> columnNames,
        values |-> [k \in 1..Len(columnNames) |-> columnsObject.val[columnNames[k]]]]

\* The three shapes of a point of series options: a positional array, a
\* point-options object, a primitive.
ArrayPoint(items) ==
    [kind |-> "array", items |-> items, obj |-> EmptyObject, value |-> UNDEFINED]

ObjectPoint(obj) ==
    [kind |-> "object", items |-> <<>>, obj |-> obj, value |-> UNDEFINED]

PrimitivePoint(value) ==
    [kind |-> "primitive", items |-> <<>>, obj |-> EmptyObject, value |-> value]

\* DataParser.getSeriesOptionsFromTable: one point-options object per row.
RECURSIVE copyCells(_, _, _)
copyCells(pointOptions, row, names) ==
    IF names = <<>> THEN pointOptions
    ELSE copyCells(Put(pointOptions, Head(names), getCell(row, Head(names))),
                   row, Tail(names))

pointOptionsOfRow(row) ==
    copyCells(Put(EmptyObject, "id", row.id), row, getCellNames(row))

getSeriesOptionsFromTable(t) ==
    [data |-> [i \in 1..Len(getAllRows(t)) |->
                  ObjectPoint(pointOptionsOfRow(getAllRows(t)[i]))]]

\* Lines 210-212: while (headers.length < columnsLength) headers.push(uniqueKey())
RECURSIVE fillHeaders(_, _, _)
fillHeaders(headers, columnsLength, counter) ==
    IF Len(headers) >= columnsLength THEN [headers |-> headers, counter |-> counter]
    ELSE fillHeaders(Append(headers, uniqueKey(counter)), columnsLength, counter + 1)

\* insertCells reading every cell from the first position of its column.
RECURSIVE insertCellsFirstPosition(_, _, _, _, _)
insertCellsFirstPosition(row, headers, cols, i, j) ==
    IF j >= Len(cols) THEN row
    ELSE insertCellsFirstPosition(
            insertCell(row, headers[j + 1], ArrayGet(cols[j + 1], 0)),
            headers, cols, i, j + 1)

\* Lines 219-221: one cell per column, columns[j][i], into the row.
RECURSIVE insertCells(_, _, _, _, _)
insertCells(row, headers, cols, i, j) ==
    IF j >= Len(cols) THEN row
    ELSE insertCells(insertCell(row, headers[j + 1], ArrayGet(cols[j + 1], i)),
                     headers, cols, i, j + 1)

\* Lines 217-223: one row per element of the first column.
RECURSIVE buildRows(_, _, _, _, _)
buildRows(t, headers, cols, i, counter) ==
    IF i >= Len(cols[1]) THEN [table |-> t, counter |-> counter]
    ELSE buildRows(
            insertRow(t, insertCells(DataTableRow(EmptyObject, counter),
                                     headers, cols, i, 0)),
            headers, cols, i + 1, counter + 1)

\* DataParser.getTableFromColumns: the table, and the key counter after it.
getTableFromColumns(cols, headers, counter) ==
    LET filled == fillHeaders(headers, Len(cols), counter)
        t == presentationSetColumnOrder(NewDataTable, filled.headers)
    IN IF Len(cols) > 0
       THEN buildRows(t, filled.headers, cols, 0, filled.counter)
       ELSE [table |-> t, counter |-> filled.counter]

\* SeriesRegistry.seriesTypes[type].prototype.pointArrayMap, `undefined` (the
\* empty sequence here) for a type without one and for an unregistered type.
seriesTypePointArrayMap(type) ==
    CASE type = "arearange" -> <<"low", "high">>
      [] type = "line" -> <<>>
      [] OTHER -> <<>>

\* Lines 248-256: the point array map in effect.
resolvePointArrayMap(type, pointArrayMap) ==
    IF Len(pointArrayMap) > 0 THEN pointArrayMap
    ELSE LET fromType == IF type # "" THEN seriesTypePointArrayMap(type) ELSE <<>>
         IN IF Len(fromType) > 0 THEN fromType ELSE <<"x", "y">>

\* pointArrayMap[j] || fallback
MapName(pointArrayMap, j, fallback) ==
    IF j + 1 \in 1..Len(pointArrayMap) /\ pointArrayMap[j + 1] # ""
    THEN pointArrayMap[j + 1]
    ELSE fallback

\* arrayPointOptions naming every item by its position, whatever the map.
RECURSIVE arrayPointOptionsByPosition(_, _, _, _)
arrayPointOptionsByPosition(pointOptions, items, pointArrayMap, j) ==
    IF j >= Len(items) THEN pointOptions
    ELSE arrayPointOptionsByPosition(
            Put(pointOptions, NameOfIndex(j), items[j + 1]),
            items, pointArrayMap, j + 1)

\* Lines 268-271: the point options of a positional point.
RECURSIVE arrayPointOptions(_, _, _, _)
arrayPointOptions(pointOptions, items, pointArrayMap, j) ==
    IF j >= Len(items) THEN pointOptions
    ELSE arrayPointOptions(
            Put(pointOptions, MapName(pointArrayMap, j, NameOfIndex(j)), items[j + 1]),
            items, pointArrayMap, j + 1)

\* primitivePointOptions with the names 'x' and 'y', whatever the map.
primitivePointOptionsXY(point, pointArrayMap, i) ==
    Put(Put(EmptyObject, "x", NameOfIndex(i)), "y", point.value)

\* Lines 284-287: the cells of a primitive point.
primitivePointOptions(point, pointArrayMap, i) ==
    Put(Put(EmptyObject, MapName(pointArrayMap, 0, "x"), NameOfIndex(i)),
        MapName(pointArrayMap, 1, "y"), point.value)

\* Lines 264-289: the cells the row of data[i] is constructed from.
pointCells(point, pointArrayMap, i) ==
    CASE point.kind = "array" ->
            arrayPointOptions(EmptyObject, point.items, pointArrayMap, 0)
      [] point.kind = "object" -> point.obj
      [] OTHER -> primitivePointOptions(point, pointArrayMap, i)

\* Lines 263-290: the points from data[i] on, each inserted as a row.
RECURSIVE insertPoints(_, _, _, _, _)
insertPoints(t, data, pointArrayMap, i, counter) ==
    IF i >= Len(data) THEN [table |-> t, counter |-> counter]
    ELSE LET row == DataTableRow(pointCells(data[i + 1], pointArrayMap, i), counter)
         IN insertPoints(insertRow(t, row), data, pointArrayMap, i + 1,
                         IF row.auto THEN counter + 1 ELSE counter)

\* DataParser.getTableFromSeriesOptions: the table, and the key counter after it.
getTableFromSeriesOptions(seriesOptions, pointArrayMap, counter) ==
    insertPoints(NewDataTable, seriesOptions.data,
                 resolvePointArrayMap(seriesOptions.type, pointArrayMap), 0, counter)

(***************************************************************************)
(* The parser's operations as actions                                      *)
(***************************************************************************)

MaxPoints == 2

MaxKeys == 4

\* The object literal with the given <<name, value>> pairs, in order.
RECURSIVE Literal(_)
Literal(pairs) ==
    IF pairs = <<>> THEN EmptyObject
    ELSE Put(Literal(SubSeq(pairs, 1, Len(pairs) - 1)),
             pairs[Len(pairs)][1], pairs[Len(pairs)][2])

Points ==
    { ArrayPoint(<<"3">>),
      ArrayPoint(<<"3", "7">>),
      ArrayPoint(<<"7", "3", "5">>),
      PrimitivePoint("3"),
      PrimitivePoint("null"),
      ObjectPoint(Literal(<< <<"y", "7">>, <<"x", "3">> >>)),
      ObjectPoint(Literal(<< <<"id", "p1">>, <<"x", "3">> >>)),
      ObjectPoint(Literal(<< <<"id", "p1">>, <<"y", "7">> >>)) }

DataLists == UNION {[1..n -> Points] : n \in 0..MaxPoints}

\* <<seriesOptions.type, pointArrayMap>> of a call; "" is no type.
MapArguments ==
    { <<"", <<>>>>, <<"arearange", <<>>>>, <<"line", <<>>>>,
      <<"", <<"x", "y">>>>, <<"line", <<"low", "high">>>>, <<"", <<"x">>>> }

\* <<columns, headers>> of a getTableFromColumns call that does not take them
\* from a getColumnsFromTable result.
ColumnArguments ==
    { << << <<"3", "7">>, <<"5">> >>, <<"a", "b">> >>,
      << << <<"3">>, <<"5", "7">> >>, <<"a", "b">> >>,
      << << <<"3", "7">>, <<"5", "3">> >>, <<"a">> >>,
      << <<>>, <<>> >> }

NoColumns == [done |-> FALSE, ordered |-> FALSE, names |-> <<>>, values |-> <<>>]

NoSeries == [done |-> FALSE, data |-> <<>>]

Provenance(op, data, type, pointArrayMap, cols, headers, roundTrip) ==
    [op |-> op, data |-> data, type |-> type, pointArrayMap |-> pointArrayMap,
     columns |-> cols, headers |-> headers, roundTrip |-> roundTrip]

SeriesInputs ==
    {Provenance("series", data, arg[1], arg[2], <<>>, <<>>, FALSE) :
        data \in DataLists, arg \in MapArguments}

ColumnInputs ==
    {Provenance("columns", <<>>, "", <<>>, arg[1], arg[2], FALSE) :
        arg \in ColumnArguments}

InitParser ==
    /\ input \in SeriesInputs \cup ColumnInputs
    /\ table = NewDataTable
    /\ tableFrom = Provenance("new", <<>>, "", <<>>, <<>>, <<>>, FALSE)
    /\ columns = NoColumns
    /\ seriesOut = NoSeries
    /\ keyCounter = 0

GetTableFromSeriesOptions ==
    /\ input.op = "series"
    /\ keyCounter + Len(input.data) <= MaxKeys
    /\ LET built == getTableFromSeriesOptions(
                        [data |-> input.data, type |-> input.type],
                        input.pointArrayMap, keyCounter)
       IN /\ table' = built.table
          /\ keyCounter' = built.counter
    /\ tableFrom' = input
    /\ columns' = NoColumns
    /\ seriesOut' = NoSeries
    /\ UNCHANGED <<input, registryVars, storeVars, converterVars>>

GetColumnsFromTable ==
    /\ \E usePresentationOrder \in BOOLEAN :
          LET got == getColumnsFromTable(table, usePresentationOrder)
          IN columns' = [done |-> TRUE, ordered |-> usePresentationOrder,
                         names |-> got.names, values |-> got.values]
    /\ UNCHANGED <<input, table, tableFrom, seriesOut, keyCounter>>
    /\ UNCHANGED <<registryVars, storeVars, converterVars>>

\* getTableFromColumns with arguments of the caller's.
GetTableFromColumns ==
    /\ input.op = "columns"
    /\ keyCounter + Len(input.columns)
          + (IF Len(input.columns) > 0 THEN Len(input.columns[1]) ELSE 0) <= MaxKeys
    /\ LET built == getTableFromColumns(input.columns, input.headers, keyCounter)
       IN /\ table' = built.table
          /\ keyCounter' = built.counter
    /\ tableFrom' = input
    /\ columns' = NoColumns
    /\ seriesOut' = NoSeries
    /\ UNCHANGED <<input, registryVars, storeVars, converterVars>>

\* getTableFromColumns with the columns getColumnsFromTable returned and their
\* names as headers.
GetTableFromOwnColumns ==
    /\ columns.done
    /\ keyCounter + Len(table.rows) <= MaxKeys
    /\ LET built == getTableFromColumns(columns.values, columns.names, keyCounter)
       IN /\ table' = built.table
          /\ keyCounter' = built.counter
    /\ tableFrom' = Provenance("columns", <<>>, "", <<>>,
                               columns.values, columns.names, TRUE)
    /\ columns' = NoColumns
    /\ seriesOut' = NoSeries
    /\ UNCHANGED <<input, registryVars, storeVars, converterVars>>

GetSeriesOptionsFromTable ==
    /\ seriesOut' = [done |-> TRUE, data |-> getSeriesOptionsFromTable(table).data]
    /\ UNCHANGED <<input, table, tableFrom, columns, keyCounter>>
    /\ UNCHANGED <<registryVars, storeVars, converterVars>>

NextParser ==
    \/ GetTableFromSeriesOptions
    \/ GetColumnsFromTable
    \/ GetTableFromColumns
    \/ GetTableFromOwnColumns
    \/ GetSeriesOptionsFromTable

(***************************************************************************)
(* DataStore: column metadata and export                                   *)
(***************************************************************************)

MaxIndex == 2

\* A MetaColumn of the model: an optional `index` and an optional `dataType`.
NoMeta == [hasIndex |-> FALSE, index |-> 0, dataType |-> ""]

IndexMeta(i) == [hasIndex |-> TRUE, index |-> i, dataType |-> ""]

TypeMeta == [hasIndex |-> FALSE, index |-> 0, dataType |-> "number"]

\* U.merge(a, b) of two MetaColumn objects: the fields of b win, the others
\* of a stay.
merge(a, b) ==
    [hasIndex |-> a.hasIndex \/ b.hasIndex,
     index |-> IF b.hasIndex THEN b.index ELSE a.index,
     dataType |-> IF b.dataType # "" THEN b.dataType ELSE a.dataType]

\* DataStore.prototype.describeColumn, on the metadata's columns object.
describeColumn(cols, name, columnMeta) ==
    Put(cols, name, merge(IF HasOwn(cols, name) THEN cols.val[name] ELSE NoMeta,
                          columnMeta))

\* DataStore.prototype.describeColumns: the names are popped from the end of
\* Object.keys(columns).
RECURSIVE describeEach(_, _, _)
describeEach(cols, described, names) ==
    IF names = <<>> THEN cols
    ELSE describeEach(
            describeColumn(cols, names[Len(names)], described.val[names[Len(names)]]),
            described, SubSeq(names, 1, Len(names) - 1))

describeColumns(cols, described) ==
    describeEach(cols, described, ObjectKeys(described))

\* DataStore.prototype.setColumnOrder: describeColumn(columnNames[i], {index: i})
RECURSIVE setColumnOrder(_, _, _)
setColumnOrder(cols, columnNames, i) ==
    IF i >= Len(columnNames) THEN cols
    ELSE setColumnOrder(describeColumn(cols, columnNames[i + 1], IndexMeta(i)),
                        columnNames, i + 1)

\* U.pick(columns[columnName].index, i)
pickIndex(meta, i) == IF meta.hasIndex THEN meta.index ELSE i

\* DataStore.prototype.getColumnOrder: a sparse array of names.
RECURSIVE placeColumns(_, _, _, _)
placeColumns(columnOrder, cols, columnNames, i) ==
    IF i >= Len(columnNames) THEN columnOrder
    ELSE placeColumns(
            ArraySet(columnOrder, pickIndex(cols.val[columnNames[i + 1]], i),
                     columnNames[i + 1]),
            cols, columnNames, i + 1)

getColumnOrder(cols) == placeColumns(<<>>, cols, ObjectKeys(cols), 0)

\* DataTable.prototype.toColumns: the record of columns, `id` put in first.
toColumns(t) == scanRows(Put(EmptyObject, "id", <<>>), getAllRows(t), 0)

\* Lines 186-194: the comparator puts a before b when a's place in the
\* reversed order is the greater one.
exportBefore(columnOrder, a, b) == IndexOf(columnOrder, a) > IndexOf(columnOrder, b)

\* Array.prototype.sort with that comparator: x is put after the last name
\* that is not to come after it (equal names keep their order).
RECURSIVE insertSorted(_, _, _)
insertSorted(sorted, x, columnOrder) ==
    IF sorted = <<>> THEN <<x>>
    ELSE IF exportBefore(columnOrder, x, sorted[Len(sorted)])
    THEN Append(insertSorted(SubSeq(sorted, 1, Len(sorted) - 1), x, columnOrder),
                sorted[Len(sorted)])
    ELSE Append(sorted, x)

RECURSIVE sortForExport(_, _)
sortForExport(names, columnOrder) ==
    IF names = <<>> THEN <<>>
    ELSE insertSorted(sortForExport(SubSeq(names, 1, Len(names) - 1), columnOrder),
                      names[Len(names)], columnOrder)

\* DataStore.prototype.getColumnsForExport
getColumnsForExport(t, cols, includeIdColumn) ==
    LET columnsRecord == toColumns(t)
        keys == ObjectKeys(columnsRecord)
        columnNames == IF includeIdColumn THEN keys ELSE SubSeq(keys, 2, Len(keys))
        columnOrder == Reverse(getColumnOrder(cols))
        sorted == IF Len(columnOrder) > 0
                  THEN sortForExport(columnNames, columnOrder)
                  ELSE columnNames
    IN [columnNames |-> sorted,
        columnValues |-> [k \in 1..Len(sorted) |-> Get(columnsRecord, sorted[k])]]

(***************************************************************************)
(* The store's operations as actions                                       *)
(***************************************************************************)

\* The names that metadata is given for.
MetaNames == {"a", "b", "c"}

\* The tables a store is constructed with.
StoreTables ==
    { NewDataTable,
      getTableFromColumns(<< <<"3", "7">>, <<"5", "3">>, <<"7", "5">> >>,
                          <<"c", "a", "b">>, 0).table,
      getTableFromSeriesOptions(
          [data |-> << ObjectPoint(Literal(<< <<"b", "7">> >>)),
                       ObjectPoint(Literal(<< <<"a", "3">>, <<"b", "5">> >>)) >>,
           type |-> ""], <<>>, 0).table,
      getTableFromSeriesOptions(
          [data |-> << ArrayPoint(<<"7", "3", "5">>) >>, type |-> ""],
          <<"a", "b">>, 0).table }

MetaArguments == {NoMeta} \cup {IndexMeta(i) : i \in 0..MaxIndex}

\* The arguments of describeColumns.
DescribedColumns ==
    { Literal(<< <<"a", NoMeta>>, <<"b", NoMeta>> >>),
      Literal(<< <<"c", IndexMeta(0)>>, <<"a", TypeMeta>> >>) }

StoreCall(op, names, order, includeIdColumn, exported) ==
    [op |-> op, names |-> names, order |-> order,
     includeIdColumn |-> includeIdColumn, exported |-> exported]

NoExport == [columnNames |-> <<>>, columnValues |-> <<>>]

\* No toJSON() result yet.
NoJSON ==
    [done |-> FALSE, class |-> <<>>, metadata |-> EmptyObject,
     sameObject |-> FALSE, table |-> <<>>]

\* A store nobody listens to and nobody has serialized, of the base class.
IdleLifecycle ==
    /\ listeners = <<>>
    /\ handles = 0
    /\ emitted = <<>>
    /\ storeClass = [cid |-> "c4", fn |-> TRUE, text |-> <<"DataStore">>]
    /\ json = NoJSON

InitStore ==
    /\ columnsMeta = EmptyObject
    /\ storeTable \in StoreTables
    /\ lastStore = StoreCall("new", <<>>, <<>>, FALSE, NoExport)
    /\ IdleLifecycle

DescribeColumn ==
    /\ \E name \in MetaNames, columnMeta \in MetaArguments :
          columnsMeta' = describeColumn(columnsMeta, name, columnMeta)
    /\ lastStore' = StoreCall("describeColumn", <<>>, <<>>, FALSE, NoExport)
    /\ UNCHANGED <<storeTable, lifecycleVars, registryVars, parserVars, converterVars>>

DescribeColumns ==
    /\ \E described \in DescribedColumns :
          columnsMeta' = describeColumns(columnsMeta, described)
    /\ lastStore' = StoreCall("describeColumns", <<>>, <<>>, FALSE, NoExport)
    /\ UNCHANGED <<storeTable, lifecycleVars, registryVars, parserVars, converterVars>>

SetColumnOrder ==
    /\ \E columnNames \in DistinctSeqs({"a", "b", "c"}, 3) :
          /\ columnsMeta' = setColumnOrder(columnsMeta, columnNames, 0)
          /\ lastStore' = StoreCall("setColumnOrder", columnNames, <<>>,
                                    FALSE, NoExport)
    /\ UNCHANGED <<storeTable, lifecycleVars, registryVars, parserVars, converterVars>>

GetColumnOrder ==
    /\ lastStore' = StoreCall("getColumnOrder", <<>>, getColumnOrder(columnsMeta),
                              FALSE, NoExport)
    /\ UNCHANGED <<columnsMeta, storeTable, lifecycleVars, registryVars, parserVars,
                   converterVars>>

GetColumnsForExport ==
    /\ \E includeIdColumn \in BOOLEAN :
          lastStore' = StoreCall("getColumnsForExport", <<>>, <<>>,
                                 includeIdColumn,
                                 getColumnsForExport(storeTable, columnsMeta,
                                                     includeIdColumn))
    /\ UNCHANGED <<columnsMeta, storeTable, lifecycleVars, registryVars, parserVars,
                   converterVars>>

NextStore ==
    \/ DescribeColumn
    \/ DescribeColumns
    \/ SetColumnOrder
    \/ GetColumnOrder
    \/ GetColumnsForExport

(***************************************************************************)
(* DataStore: events                                                       *)
(***************************************************************************)

MaxListeners == 4

EventTypes == {"afterLoad", "loadError"}

Callbacks == {"f", "g"}

\* U.addEvent(store, type, callback): the callback joins the callbacks of the
\* store; `handle` identifies the unregister function that is returned.
addEvent(registered, handle, type, callback) ==
    Append(registered, [handle |-> handle, type |-> type, callback |-> callback])

\* The function addEvent returned: it takes its registration out, if it is
\* still in.
RECURSIVE removeEvent(_, _)
removeEvent(registered, handle) ==
    IF registered = <<>> THEN <<>>
    ELSE IF Head(registered).handle = handle THEN Tail(registered)
    ELSE <<Head(registered)>> \o removeEvent(Tail(registered), handle)

\* U.fireEvent(store, type, eventArguments): the invocations it makes, one per
\* callback registered for the type, in registration order.
RECURSIVE fireEvent(_, _, _)
fireEvent(registered, type, eventArguments) ==
    IF registered = <<>> THEN <<>>
    ELSE (IF Head(registered).type = type
          THEN << [handle |-> Head(registered).handle,
                   callback |-> Head(registered).callback,
                   type |-> type, table |-> eventArguments.table] >>
          ELSE <<>>) \o fireEvent(Tail(registered), type, eventArguments)

\* DataStore.prototype.on
on(registered, handle, type, callback) == addEvent(registered, handle, type, callback)

\* load() firing `load` where it has to fire `afterLoad`.
loadFiresLoad(registered, t) == fireEvent(registered, "load", [table |-> t])

\* DataStore.prototype.load: the callback invocations it makes.
load(registered, t) == fireEvent(registered, "afterLoad", [table |-> t])

\* The metadata a store is constructed with.
StoreMetadata ==
    {EmptyObject, describeColumn(EmptyObject, "a", IndexMeta(0))}

InitEvents ==
    /\ columnsMeta \in StoreMetadata
    /\ storeTable \in StoreTables
    /\ lastStore = StoreCall("new", <<>>, <<>>, FALSE, NoExport)
    /\ listeners = <<>>
    /\ handles = 0
    /\ emitted = <<>>
    /\ storeClass = [cid |-> "c4", fn |-> TRUE, text |-> <<"DataStore">>]
    /\ json = NoJSON

On ==
    /\ handles < MaxListeners
    /\ \E type \in EventTypes, callback \in Callbacks :
          listeners' = on(listeners, handles, type, callback)
    /\ handles' = handles + 1
    /\ lastStore' = StoreCall("on", <<>>, <<>>, FALSE, NoExport)
    /\ UNCHANGED <<columnsMeta, storeTable, emitted, storeClass, json>>
    /\ UNCHANGED <<registryVars, parserVars, converterVars>>

\* A call of a function that on() returned.
Unregister ==
    /\ \E handle \in 0..(handles - 1) :
          listeners' = removeEvent(listeners, handle)
    /\ lastStore' = StoreCall("unregister", <<>>, <<>>, FALSE, NoExport)
    /\ UNCHANGED <<columnsMeta, storeTable, handles, emitted, storeClass, json>>
    /\ UNCHANGED <<registryVars, parserVars, converterVars>>

Load ==
    /\ emitted' = load(listeners, storeTable)
    /\ lastStore' = StoreCall("load", <<>>, <<>>, FALSE, NoExport)
    /\ UNCHANGED <<columnsMeta, storeTable, listeners, handles, storeClass, json>>
    /\ UNCHANGED <<registryVars, parserVars, converterVars>>

NextEvents ==
    \/ On
    \/ Unregister
    \/ Load

(***************************************************************************)
(* DataStore: serialization                                                *)
(***************************************************************************)

\* U.merge(a) of the metadata's columns object: a new object that holds a
\* copy of every MetaColumn; `sameObject` tells whether the result is the
\* argument itself.
mergeCopy(cols) ==
    [object |-> [keys |-> cols.keys,
                 val |-> [n \in DOMAIN cols.val |-> merge(NoMeta, cols.val[n])]],
     sameObject |-> FALSE]

\* table.toJSON(): one record per row, the identifier among the cells.
tableToJSON(t) ==
    [i \in 1..Len(t.rows) |-> Put(t.rows[i].cells, "id", t.rows[i].id)]

\* What toString() of a class shows after "function".
functionName(dataStore) == IF dataStore.fn THEN dataStore.text ELSE <<>>

\* toJSON() with the name of the constructor function as `$class`.
toJSONWithFunctionName(dataStore, cols, t) ==
    [done |-> TRUE, class |-> functionName(dataStore),
     metadata |-> mergeCopy(cols).object,
     sameObject |-> mergeCopy(cols).sameObject, table |-> tableToJSON(t)]

\* DataStore.prototype.toJSON of an instance of the class dataStore.
toJSON(dataStore, cols, t) ==
    [done |-> TRUE, class |-> getName(dataStore),
     metadata |-> mergeCopy(cols).object,
     sameObject |-> mergeCopy(cols).sameObject, table |-> tableToJSON(t)]

InitSerial ==
    /\ columnsMeta \in StoreMetadata
    /\ storeTable \in {NewDataTable,
                       getTableFromSeriesOptions(
                           [data |-> << ArrayPoint(<<"3", "7">>) >>, type |-> ""],
                           <<>>, 0).table}
    /\ lastStore = StoreCall("new", <<>>, <<>>, FALSE, NoExport)
    /\ listeners = <<>>
    /\ handles = 0
    /\ emitted = <<>>
    /\ storeClass \in StoreClasses
    /\ json = NoJSON

ToJSON ==
    /\ json' = toJSON(storeClass, columnsMeta, storeTable)
    /\ lastStore' = StoreCall("toJSON", <<>>, <<>>, FALSE, NoExport)
    /\ UNCHANGED <<columnsMeta, storeTable, listeners, handles, emitted, storeClass>>
    /\ UNCHANGED <<registryVars, parserVars, converterVars>>

\* The holder of a toJSON() result writes to its metadata; the write reaches
\* the store when the result's metadata is the store's own object.
ChangeJSON ==
    /\ json.done
    /\ \E name \in {"a", "b"} :
          /\ json' = [json EXCEPT !.metadata = Put(json.metadata, name, TypeMeta)]
          /\ columnsMeta' = IF json.sameObject THEN json'.metadata ELSE columnsMeta
    /\ lastStore' = StoreCall("changeJSON", <<>>, <<>>, FALSE, NoExport)
    /\ UNCHANGED <<storeTable, listeners, handles, emitted, storeClass>>
    /\ UNCHANGED <<registryVars, parserVars, converterVars>>

\* addStore calls next to a store instance.
AddStoreOfSerial ==
    /\ \E dataStore \in StoreClasses : addStore(dataStore)
    /\ UNCHANGED <<storeVars, parserVars, converterVars>>

NextSerial ==
    \/ AddStoreOfSerial
    \/ ToJSON
    \/ ChangeJSON

(***************************************************************************)
(* DataConverter: date parsing                                             *)
(***************************************************************************)

NaN == [ok |-> FALSE, t |-> 0]

Timestamp(t) == [ok |-> TRUE, t |-> t]

\* Days from 1970-01-01 to the given day of the proleptic Gregorian calendar.
DaysFromCivil(year, month, day) ==
    LET y == IF month <= 2 THEN year - 1 ELSE year
        era == y \div 400
        yoe == y - era * 400
        mp == IF month > 2 THEN month - 3 ELSE month + 9
        doy == ((153 * mp + 2) \div 5) + day - 1
        doe == yoe * 365 + (yoe \div 4) - (yoe \div 100) + doy
    IN era * 146097 + doe - 719468

\* Date.UTC(year, monthIndex, day), in minutes: a year 0..99 is 1900 + year, a
\* month index past 11 and a day past the month's end carry over.
DateUTC(year, monthIndex, day) ==
    LET full == IF year \in 0..99 THEN 1900 + year ELSE year
        y == full + (monthIndex \div 12)
        m == (monthIndex % 12) + 1
    IN (DaysFromCivil(y, m, 1) + day - 1) * 1440

\* The names of converter.dateFormats, in declaration order.
FormatNames == <<"YYYY/mm/dd", "dd/mm/YYYY", "mm/dd/YYYY", "dd/mm/YY", "mm/dd/YY">>

\* value.match(format.regex): the lengths of the three digit groups decide.
regexMatches(formatName, value) ==
    /\ Len(value.groups) = 3
    /\ LET l1 == value.groups[1].len
           l2 == value.groups[2].len
           l3 == value.groups[3].len
       IN CASE formatName = "YYYY/mm/dd" ->
                    l1 = 4 /\ l2 \in 1..2 /\ l3 \in 1..2
            [] formatName \in {"dd/mm/YYYY", "mm/dd/YYYY"} ->
                    l1 \in 1..2 /\ l2 \in 1..2 /\ l3 = 4
            [] formatName \in {"dd/mm/YY", "mm/dd/YY"} ->
                    l1 \in 1..2 /\ l2 \in 1..2 /\ l3 = 2
            [] OTHER -> FALSE

\* format.parser(match) of a matching value.
formatParser(formatName, value, currentYear) ==
    LET g1 == value.groups[1].num
        g2 == value.groups[2].num
        g3 == value.groups[3].num
    IN CASE formatName = "YYYY/mm/dd" -> Timestamp(DateUTC(g1, g2 - 1, g3))
         [] formatName = "dd/mm/YYYY" -> Timestamp(DateUTC(g3, g2 - 1, g1))
         [] formatName = "mm/dd/YYYY" -> Timestamp(DateUTC(g3, g1 - 1, g2))
         [] formatName = "dd/mm/YY" ->
                Timestamp(DateUTC(IF g3 > currentYear - 2000 THEN g3 + 1900
                                  ELSE g3 + 2000, g2 - 1, g1))
         [] formatName = "mm/dd/YY" -> Timestamp(DateUTC(g3 + 2000, g1 - 1, g2))
         [] OTHER -> NaN

\* Lines 344-355: the first format, in declaration order, whose pattern
\* matches; "" when none does.
RECURSIVE firstMatchingFormat(_, _)
firstMatchingFormat(value, k) ==
    IF k > Len(FormatNames) THEN ""
    ELSE IF regexMatches(FormatNames[k], value) THEN FormatNames[k]
    ELSE firstMatchingFormat(value, k + 1)

\* Lines 359-363: the format of the given name, 'YYYY/mm/dd' for a name that
\* is not registered.
formatOrDefault(name) ==
    IF name \in Range(FormatNames) THEN name ELSE "YYYY/mm/dd"

\* Lines 370-391: the Date.parse fallback, given what Date.parse returned.
fallbackResult(parsed, timezoneOffset) ==
    IF parsed.ok THEN Timestamp(parsed.t - timezoneOffset) ELSE NaN

\* DataConverter.prototype.getDateFormat
getDateFormat == dateFormat

\* DataConverter.prototype.parseDate without a parseDate callback: the result,
\* the format whose pattern and parser were used ("" when none matched),
\* whether the registry was scanned, and options.dateFormat after the call.
parseDate(value, dateFormatProp, activeFormat, parsed, host) ==
    LET given == IF dateFormatProp # "" THEN dateFormatProp ELSE activeFormat
        scanned == given = ""
        used == IF scanned THEN firstMatchingFormat(value, 1)
                ELSE IF regexMatches(formatOrDefault(given), value)
                THEN formatOrDefault(given)
                ELSE ""
    IN [result |-> IF used # "" THEN formatParser(used, value, host.year)
                   ELSE fallbackResult(parsed, host.timezoneOffset),
        used |-> used,
        scanned |-> scanned,
        dateFormat |-> activeFormat]

(***************************************************************************)
(* DataConverter: strings and numbers                                      *)
(*                                                                         *)
(* A string handed to trim, asNumber and guessType is the sequence of its  *)
(* characters.  A number is its sign, the digits of its integer part       *)
(* (without leading zeros) and the digits of its fraction (without         *)
(* trailing zeros); the strings of the model hold no exponent, no `+`, no  *)
(* hexadecimal literal and no `Infinity`.                                  *)
(***************************************************************************)

DigitChars == <<"0", "1", "2", "3", "4", "5", "6", "7", "8", "9">>

IsDigit(c) == c \in Range(DigitChars)

\* \s
IsSpace(c) == c \in {" ", "\t"}

NotANumber == [nan |-> TRUE, neg |-> FALSE, int |-> <<>>, frac |-> <<>>]

\* The digits from position `from` on up to the first character that is none.
RECURSIVE DigitRun(_, _)
DigitRun(str, from) ==
    IF from > Len(str) \/ ~IsDigit(str[from]) THEN <<>>
    ELSE <<str[from]>> \o DigitRun(str, from + 1)

RECURSIVE DropLeadingZeros(_)
DropLeadingZeros(digits) ==
    IF digits # <<>> /\ Head(digits) = "0" THEN DropLeadingZeros(Tail(digits))
    ELSE digits

RECURSIVE DropTrailingZeros(_)
DropTrailingZeros(digits) ==
    IF digits # <<>> /\ digits[Len(digits)] = "0"
    THEN DropTrailingZeros(SubSeq(digits, 1, Len(digits) - 1))
    ELSE digits

\* The number of a sign, integer digits and fraction digits; -0 equals 0.
NumberOf(neg, intDigits, fracDigits) ==
    LET int == DropLeadingZeros(intDigits)
        frac == DropTrailingZeros(fracDigits)
    IN [nan |-> FALSE, neg |-> neg /\ (int # <<>> \/ frac # <<>>),
        int |-> int, frac |-> frac]

\* The longest decimal literal the string starts with at position `from`: its
\* number, and the position after it; NaN when there is none.
DecimalPrefix(str, from) ==
    LET neg == from <= Len(str) /\ str[from] = "-"
        start == IF neg THEN from + 1 ELSE from
        intDigits == DigitRun(str, start)
        dot == start + Len(intDigits)
        hasDot == dot <= Len(str) /\ str[dot] = "."
        fracDigits == IF hasDot THEN DigitRun(str, dot + 1) ELSE <<>>
    IN IF intDigits = <<>> /\ fracDigits = <<>>
       THEN [number |-> NotANumber, next |-> from]
       ELSE [number |-> NumberOf(neg, intDigits, fracDigits),
             next |-> IF hasDot THEN dot + 1 + Len(fracDigits) ELSE dot]

RECURSIVE StripLeft(_)
StripLeft(str) ==
    IF str # <<>> /\ IsSpace(Head(str)) THEN StripLeft(Tail(str)) ELSE str

RECURSIVE StripRight(_)
StripRight(str) ==
    IF str # <<>> /\ IsSpace(str[Len(str)])
    THEN StripRight(SubSeq(str, 1, Len(str) - 1))
    ELSE str

\* parseFloat(str)
parseFloat(str) == DecimalPrefix(StripLeft(str), 1).number

\* +str
toNumber(str) ==
    LET stripped == StripRight(StripLeft(str))
        prefix == DecimalPrefix(stripped, 1)
    IN IF stripped = <<>> THEN NumberOf(FALSE, <<>>, <<>>)
       ELSE IF prefix.next = Len(stripped) + 1 THEN prefix.number
       ELSE NotANumber

\* a === b of two numbers
StrictEquals(a, b) == ~a.nan /\ ~b.nan /\ a = b

\* Whether digits a (without leading zeros) are a greater number than digits b.
RECURSIVE DigitsGreater(_, _)
DigitsGreater(a, b) ==
    IF Len(a) # Len(b) THEN Len(a) > Len(b)
    ELSE IF a = <<>> THEN FALSE
    ELSE IF Head(a) # Head(b)
    THEN IndexOf(DigitChars, Head(a)) > IndexOf(DigitChars, Head(b))
    ELSE DigitsGreater(Tail(a), Tail(b))

\* a > n of a number a and a positive whole number of digits n
GreaterThan(a, n) ==
    /\ ~a.nan
    /\ ~a.neg
    /\ \/ DigitsGreater(a.int, n)
       \/ a.int = n /\ a.frac # <<>>

\* The constructor's decimalRegex: whether there is one.
hasDecimalRegex(point) == point \in {".", ","}

\* The positions at which decimalRegex, '^(-?[0-9]+)' + decimalPoint +
\* '([0-9]+)$', can match its middle; the `.` of a decimalPoint '.' stands in
\* the pattern unescaped and matches any character.
decimalRegexSplits(str, point) ==
    {k \in 2..(Len(str) - 1) :
        /\ point = "." \/ str[k] = point
        /\ LET start == IF str[1] = "-" THEN 2 ELSE 1
           IN /\ start <= k - 1
              /\ \A i \in start..(k - 1) : IsDigit(str[i])
        /\ \A i \in (k + 1)..Len(str) : IsDigit(str[i])}

\* str.replace(decimalRegex, '$1.$2'): group 1 is greedy.
replaceDecimal(str, point) ==
    LET splits == decimalRegexSplits(str, point)
    IN IF splits = {} THEN str
       ELSE LET k == CHOOSE x \in splits : \A y \in splits : y <= x
            IN SubSeq(str, 1, k - 1) \o <<".">> \o SubSeq(str, k + 1, Len(str))

\* DataConverter.prototype.trim
trim(str, inside, point) ==
    LET stripped == StripRight(StripLeft(str))
        cleared == IF /\ inside
                      /\ stripped # <<>>
                      /\ \A i \in 1..Len(stripped) :
                            IsDigit(stripped[i]) \/ IsSpace(stripped[i])
                   THEN SelectSeq(stripped, LAMBDA c : ~IsSpace(c))
                   ELSE stripped
    IN IF hasDecimalRegex(point) THEN replaceDecimal(cleared, point) ELSE cleared

\* asNumber returning what parseFloat gave.
asNumberUnchecked(value, point) == parseFloat(trim(value, FALSE, point))

\* DataConverter.prototype.asNumber of a string.
asNumber(value, point) ==
    LET trimVal == trim(value, FALSE, point)
        cast == parseFloat(trimVal)
    IN IF ~cast.nan THEN cast ELSE NumberOf(FALSE, <<>>, <<>>)

\* 365 * 24 * 3600 * 1000, in digits.
RECURSIVE DigitsOf(_)
DigitsOf(n) ==
    IF n = 0 THEN <<>> ELSE Append(DigitsOf(n \div 10), DigitChars[(n % 10) + 1])

MillisecondsOfAYear == DigitsOf(365 * 24 * 3600) \o <<"0", "0", "0">>

\* The number a run of digits stands for.
RECURSIVE DigitsValue(_)
DigitsValue(digits) ==
    IF digits = <<>> THEN 0
    ELSE 10 * DigitsValue(SubSeq(digits, 1, Len(digits) - 1))
            + IndexOf(DigitChars, digits[Len(digits)])

\* The digit groups of a string that is three runs of digits joined by one of
\* `-`, `/`, `.` each (what the patterns of dateFormats take apart), and no
\* groups for any other string.
groupsOf(str) ==
    LET seps == {i \in 1..Len(str) : str[i] \in {"-", "/", "."}}
    IN IF /\ Cardinality(seps) = 2
          /\ \A i \in (1..Len(str)) \ seps : IsDigit(str[i])
       THEN LET p == CHOOSE x \in seps : \A y \in seps : x <= y
                q == CHOOSE x \in seps : \A y \in seps : y <= x
                parts == << SubSeq(str, 1, p - 1), SubSeq(str, p + 1, q - 1),
                            SubSeq(str, q + 1, Len(str)) >>
            IN IF \E k \in 1..3 : parts[k] = <<>> THEN <<>>
               ELSE [k \in 1..3 |->
                        [len |-> Len(parts[k]),
                         num |-> IF Len(parts[k]) <= 4 THEN DigitsValue(parts[k])
                                 ELSE 0]]
       ELSE <<>>

\* guessType comparing the magnitude of the number with the threshold.
guessTypeByMagnitude(value, point, called, dateVal) ==
    LET trimInsideVal == trim(value, TRUE, point)
        floatVal == parseFloat(trimInsideVal)
    IN IF StrictEquals(toNumber(trimInsideVal), floatVal)
       THEN IF GreaterThan([floatVal EXCEPT !.neg = FALSE], MillisecondsOfAYear)
            THEN "Date"
            ELSE "number"
       ELSE IF called /\ dateVal.ok /\ dateVal.t # 0 THEN "Date" ELSE "string"

\* DataConverter.prototype.guessType: `called` tells whether it calls
\* parseDate(value), and dateVal is what that call returns.
guessTypeCallsParseDate(value, point) ==
    LET trimInsideVal == trim(value, TRUE, point)
    IN /\ ~StrictEquals(toNumber(trimInsideVal), parseFloat(trimInsideVal))
       /\ trim(value, FALSE, point) # <<>>

guessType(value, point, called, dateVal) ==
    LET trimInsideVal == trim(value, TRUE, point)
        floatVal == parseFloat(trimInsideVal)
    IN IF StrictEquals(toNumber(trimInsideVal), floatVal)
       THEN IF GreaterThan(floatVal, MillisecondsOfAYear) THEN "Date" ELSE "number"
       ELSE IF called /\ dateVal.ok /\ dateVal.t # 0 THEN "Date" ELSE "string"

(***************************************************************************)
(* DataConverter: deduceDateFormat                                         *)
(***************************************************************************)

\* str.replace(/\//g, ' ').replace(/\-/g, ' ').replace(/\./g, ' ')
separatorsToSpaces(str) ==
    [i \in 1..Len(str) |-> IF str[i] \in {"/", "-", "."} THEN " " ELSE str[i]]

\* str.split(' ')
RECURSIVE split(_)
split(str) ==
    IF \A i \in 1..Len(str) : str[i] # " " THEN <<str>>
    ELSE LET k == CHOOSE i \in 1..Len(str) :
                      str[i] = " " /\ \A h \in 1..(i - 1) : str[h] # " "
         IN <<SubSeq(str, 1, k - 1)>> \o split(SubSeq(str, k + 1, Len(str)))

\* parseInt(str, 10) of a string without sign: the digits it starts with, and
\* 0 for NaN (the caller tells neither from the other: `if (elem)`).
parseInt(str) == DigitsValue(DigitRun(StripLeft(str), 1))

\* stable[j]: not assigned yet, the one value seen, or `false`.
Unassigned == [assigned |-> FALSE, same |-> TRUE, value |-> 0]

\* The variables of deduceDateFormat before the loop over the data; max[j] is
\* 0 while it is not assigned.
StartOfDeduction ==
    [stable |-> <<Unassigned, Unassigned, Unassigned>>,
     max |-> <<0, 0, 0>>,
     guessedFormat |-> <<"", "", "">>,
     madeDeduction |-> FALSE]

\* Lines 439-467: one component of a sample.
deduceElement(st, j, elem) ==
    IF elem = 0 THEN st
    ELSE LET k == j + 1
             max == [st.max EXCEPT ![k] = IF st.max[k] = 0 \/ st.max[k] < elem
                                          THEN elem ELSE st.max[k]]
             stable == [st.stable EXCEPT ![k] =
                           IF st.stable[k].assigned
                           THEN IF ~st.stable[k].same \/ st.stable[k].value # elem
                                THEN [assigned |-> TRUE, same |-> FALSE, value |-> 0]
                                ELSE st.stable[k]
                           ELSE [assigned |-> TRUE, same |-> TRUE, value |-> elem]]
             guessed == IF elem > 31
                        THEN IF elem < 100 THEN "YY" ELSE "YYYY"
                        ELSE IF elem > 12 /\ elem <= 31 THEN "dd"
                        ELSE IF st.guessedFormat[k] = "" THEN "mm"
                        ELSE st.guessedFormat[k]
         IN [stable |-> stable, max |-> max,
             guessedFormat |-> [st.guessedFormat EXCEPT ![k] = guessed],
             madeDeduction |-> st.madeDeduction \/ (elem > 12 /\ elem <= 31)]

\* Lines 437-469: the components of a sample from thing[j] on.
RECURSIVE deduceElements(_, _, _)
deduceElements(st, thing, j) ==
    IF j >= Len(thing) THEN st
    ELSE deduceElements(
            IF j < Len(st.guessedFormat)
            THEN deduceElement(st, j, parseInt(thing[j + 1]))
            ELSE st,
            thing, j + 1)

\* Lines 423-471: the samples from data[i] on.
RECURSIVE deduceSamples(_, _, _, _)
deduceSamples(st, data, i, limit) ==
    IF i >= limit THEN st
    ELSE deduceSamples(
            IF data[i + 1] # <<>>
            THEN deduceElements(
                    [st EXCEPT !.guessedFormat = <<"", "", "">>],
                    split(separatorsToSpaces(StripRight(StripLeft(data[i + 1])))), 0)
            ELSE st,
            data, i + 1, limit)

\* Lines 474-485: one component of the guess, given stable[j] and max[j].
settleComponent(stable, max, guessed) ==
    IF ~stable.assigned \/ stable.same
    THEN IF max > 12 /\ guessed # "YY" /\ guessed # "YYYY" THEN "YY" ELSE guessed
    ELSE IF max > 12 /\ guessed = "mm" THEN "dd" ELSE guessed

\* Lines 472-496: the format of a guess.
settleFormat(st) ==
    LET settled == [k \in 1..3 |->
                       settleComponent(st.stable[k], st.max[k], st.guessedFormat[k])]
        last == IF settled[2] = "dd" /\ settled[3] = "dd" THEN "YY" ELSE settled[3]
    IN <<settled[1], settled[2], last>>

\* guessedFormat.join('/')
joinFormat(guessed) == guessed[1] \o "/" \o guessed[2] \o "/" \o guessed[3]

\* deduceDateFormat storing the format whatever `save` is.
deduceDateFormatAlwaysSaves(data, limit, save, activeFormat) ==
    LET effective == IF limit = 0 \/ limit > Len(data) THEN Len(data) ELSE limit
        st == deduceSamples(StartOfDeduction, data, 0, effective)
        format == IF st.madeDeduction THEN joinFormat(settleFormat(st))
                  ELSE "YYYY/mm/dd"
    IN [format |-> format, dateFormat |-> format]

\* DataConverter.prototype.deduceDateFormat: the format it returns, and
\* options.dateFormat after the call.
deduceDateFormat(data, limit, save, activeFormat) ==
    LET effective == IF limit = 0 \/ limit > Len(data) THEN Len(data) ELSE limit
        st == deduceSamples(StartOfDeduction, data, 0, effective)
        format == IF st.madeDeduction THEN joinFormat(settleFormat(st))
                  ELSE "YYYY/mm/dd"
    IN [format |-> format, dateFormat |-> IF save THEN format ELSE activeFormat]

(***************************************************************************)
(* The converter's operations as actions                                   *)
(***************************************************************************)

Group(len, num) == [len |-> len, num |-> num]

\* The strings handed to parseDate: "2020/01/02", "01/02/2020", "13/02/2020",
\* "02/13/20", "1970/01/01", "1/2/99", "hello", "2020-01-02T00:00:00Z".
\* `parses` is what Date.parse may return for the string (the format of a
\* string that is not ISO 8601 is up to the host).
DateStrings ==
    { [groups |-> <<Group(4, 2020), Group(2, 1), Group(2, 2)>>,
       parses |-> {NaN, Timestamp(DateUTC(2020, 0, 2))}],
      [groups |-> <<Group(2, 1), Group(2, 2), Group(4, 2020)>>,
       parses |-> {NaN, Timestamp(DateUTC(2020, 0, 2))}],
      [groups |-> <<Group(2, 13), Group(2, 2), Group(4, 2020)>>,
       parses |-> {NaN}],
      [groups |-> <<Group(2, 2), Group(2, 13), Group(2, 20)>>,
       parses |-> {NaN, Timestamp(DateUTC(2020, 1, 13))}],
      [groups |-> <<Group(4, 1970), Group(2, 1), Group(2, 1)>>,
       parses |-> {NaN, Timestamp(0)}],
      [groups |-> <<Group(1, 1), Group(1, 2), Group(2, 99)>>,
       parses |-> {NaN, Timestamp(DateUTC(1999, 0, 2))}],
      [groups |-> <<>>, parses |-> {NaN}],
      [groups |-> <<>>, parses |-> {Timestamp(DateUTC(2020, 0, 2))}] }

\* options.dateFormat as configured: none, a registered name, another name.
ConfiguredFormats == {"", "YYYY/mm/dd", "dd/mm/YYYY", "mm/dd/YY", "YY/mm/dd"}

\* The dateFormatProp argument: none, a registered name, another name.
FormatArguments == {"", "mm/dd/YYYY", "dd/mm/YY", "dd.mm.YYYY"}

\* The host: the current year, and getTimezoneOffset() in minutes.
Hosts == {[year |-> 2020, timezoneOffset |-> 0],
          [year |-> 2030, timezoneOffset |-> -60]}

\* What a parseDate callback returns.
CallbackResults == {NaN, Timestamp(0)}

NoParse ==
    [done |-> FALSE, value |-> [groups |-> <<>>, parses |-> {NaN}],
     dateFormatProp |-> "", result |-> NaN, used |-> "", scanned |-> FALSE]

\* No deduceDateFormat arguments, no deduceDateFormat call yet.
NoSamples == [data |-> <<>>, limit |-> 0, save |-> FALSE]

NoDeduce == [done |-> FALSE, format |-> "", before |-> ""]

\* A caller that converts no number and deduces no format.
IdleNumbers ==
    /\ decimalPoint = ""
    /\ text = [chars |-> <<>>, parses |-> {NaN}]
    /\ lastCall = [op |-> "none",
                   number |-> [nan |-> TRUE, neg |-> FALSE, int |-> <<>>, frac |-> <<>>],
                   type |-> "", called |-> FALSE, dateVal |-> NaN]
    /\ samples = NoSamples
    /\ lastDeduce = NoDeduce

InitConverter ==
    /\ dateFormat \in ConfiguredFormats
    /\ parseDateFn \in BOOLEAN
    /\ env \in Hosts
    /\ lastParse = NoParse
    /\ IdleNumbers

ParseDate ==
    /\ \E value \in DateStrings, dateFormatProp \in FormatArguments :
          IF parseDateFn
          THEN /\ \E result \in CallbackResults :
                     lastParse' = [done |-> TRUE, value |-> value,
                                   dateFormatProp |-> dateFormatProp,
                                   result |-> result, used |-> "",
                                   scanned |-> FALSE]
               /\ UNCHANGED dateFormat
          ELSE \E parsed \in value.parses :
                  LET call == parseDate(value, dateFormatProp, dateFormat, parsed, env)
                  IN /\ lastParse' = [done |-> TRUE, value |-> value,
                                      dateFormatProp |-> dateFormatProp,
                                      result |-> call.result, used |-> call.used,
                                      scanned |-> call.scanned]
                     /\ dateFormat' = call.dateFormat
    /\ UNCHANGED <<parseDateFn, env, decimalPoint, text, lastCall, samples, lastDeduce>>
    /\ UNCHANGED <<registryVars, storeVars, parserVars>>

\* The strings handed to asNumber and guessType, each with what Date.parse
\* may return for it (the host decides for a string that is not ISO 8601):
\* "42", " 42 ", "-5", "1.5", "1,5", "123", "1 234,5", "1234,5", "1 234",
\* "1577836800000", "-1577836800000", "31536000000", "31536000001",
\* "31536000000.5", "-31536000001", "", "  ", "abc", "12abc", "-", ".",
\* "1.2.3", "1970/01/01", "2020/01/02", "13/02/2020", "01/02/20", "1/1/00", "
\* 2020/01/02", "2020-01-02T00:00Z"
Texts ==
    { [chars |-> <<"4", "2">>,
       parses |-> {NaN, Timestamp(DateUTC(2042, 0, 1))}],
      [chars |-> <<" ", "4", "2", " ">>,
       parses |-> {NaN}],
      [chars |-> <<"-", "5">>,
       parses |-> {NaN, Timestamp(DateUTC(2005, 0, 1))}],
      [chars |-> <<"1", ".", "5">>,
       parses |-> {NaN, Timestamp(DateUTC(2001, 0, 5))}],
      [chars |-> <<"1", ",", "5">>,
       parses |-> {NaN, Timestamp(DateUTC(2001, 0, 5))}],
      [chars |-> <<"1", "2", "3">>,
       parses |-> {NaN}],
      [chars |-> <<"1", " ", "2", "3", "4", ",", "5">>,
       parses |-> {NaN}],
      [chars |-> <<"1", "2", "3", "4", ",", "5">>,
       parses |-> {NaN}],
      [chars |-> <<"1", " ", "2", "3", "4">>,
       parses |-> {NaN, Timestamp(DateUTC(234, 0, 1))}],
      [chars |-> <<"1", "5", "7", "7", "8", "3", "6", "8", "0", "0", "0", "0", "0">>,
       parses |-> {NaN}],
      [chars |-> <<"-", "1", "5", "7", "7", "8", "3", "6", "8", "0", "0", "0", "0", "0">>,
       parses |-> {NaN}],
      [chars |-> <<"3", "1", "5", "3", "6", "0", "0", "0", "0", "0", "0">>,
       parses |-> {NaN}],
      [chars |-> <<"3", "1", "5", "3", "6", "0", "0", "0", "0", "0", "1">>,
       parses |-> {NaN}],
      [chars |-> <<"3", "1", "5", "3", "6", "0", "0", "0", "0", "0", "0", ".", "5">>,
       parses |-> {NaN}],
      [chars |-> <<"-", "3", "1", "5", "3", "6", "0", "0", "0", "0", "0", "1">>,
       parses |-> {NaN}],
      [chars |-> <<>>,
       parses |-> {NaN}],
      [chars |-> <<" ", " ">>,
       parses |-> {NaN}],
      [chars |-> <<"a", "b", "c">>,
       parses |-> {NaN}],
      [chars |-> <<"1", "2", "a", "b", "c">>,
       parses |-> {NaN}],
      [chars |-> <<"-">>,
       parses |-> {NaN}],
      [chars |-> <<".">>,
       parses |-> {NaN}],
      [chars |-> <<"1", ".", "2", ".", "3">>,
       parses |-> {NaN, Timestamp(DateUTC(2003, 0, 2))}],
      [chars |-> <<"1", "9", "7", "0", "/", "0", "1", "/", "0", "1">>,
       parses |-> {NaN, Timestamp(0)}],
      [chars |-> <<"2", "0", "2", "0", "/", "0", "1", "/", "0", "2">>,
       parses |-> {NaN, Timestamp(DateUTC(2020, 0, 2))}],
      [chars |-> <<"1", "3", "/", "0", "2", "/", "2", "0", "2", "0">>,
       parses |-> {NaN}],
      [chars |-> <<"0", "1", "/", "0", "2", "/", "2", "0">>,
       parses |-> {NaN, Timestamp(DateUTC(2020, 0, 2))}],
      [chars |-> <<"1", "/", "1", "/", "0", "0">>,
       parses |-> {NaN, Timestamp(DateUTC(2000, 0, 1))}],
      [chars |-> <<" ", "2", "0", "2", "0", "/", "0", "1", "/", "0", "2">>,
       parses |-> {NaN, Timestamp(DateUTC(2020, 0, 2))}],
      [chars |-> <<"2", "0", "2", "0", "-", "0", "1", "-", "0", "2", "T", "0", "0", ":", "0", "0", "Z">>,
       parses |-> {Timestamp(DateUTC(2020, 0, 2))}] }

\* options.decimalPoint: not configured, '.', ',', another character.
DecimalPoints == {"", ".", ",", ";"}

NoConvert ==
    [op |-> "none", number |-> NotANumber, type |-> "", called |-> FALSE,
     dateVal |-> NaN]

InitNumbers ==
    /\ dateFormat \in {"", "dd/mm/YYYY"}
    /\ parseDateFn \in BOOLEAN
    /\ env = [year |-> 2020, timezoneOffset |-> 0]
    /\ lastParse = NoParse
    /\ decimalPoint \in DecimalPoints
    /\ text \in Texts
    /\ lastCall = NoConvert
    /\ samples = NoSamples
    /\ lastDeduce = NoDeduce

AsNumber ==
    /\ lastCall' = [op |-> "asNumber", number |-> asNumber(text.chars, decimalPoint),
                    type |-> "", called |-> FALSE, dateVal |-> NaN]
    /\ UNCHANGED <<dateFormat, parseDateFn, env, lastParse, decimalPoint, text,
                   samples, lastDeduce>>
    /\ UNCHANGED <<registryVars, storeVars, parserVars>>

\* guessType, with the parseDate(value) call it makes for a string that is
\* no number and not empty.
GuessType ==
    /\ LET called == guessTypeCallsParseDate(text.chars, decimalPoint)
           value == [groups |-> groupsOf(text.chars), parses |-> text.parses]
       IN \E dateVal \in
                IF ~called THEN {NaN}
                ELSE IF parseDateFn THEN CallbackResults
                ELSE {parseDate(value, "", dateFormat, parsed, env).result :
                         parsed \in text.parses} :
             lastCall' = [op |-> "guessType", number |-> NotANumber,
                          type |-> guessType(text.chars, decimalPoint, called, dateVal),
                          called |-> called, dateVal |-> dateVal]
    /\ UNCHANGED <<dateFormat, parseDateFn, env, lastParse, decimalPoint, text,
                   samples, lastDeduce>>
    /\ UNCHANGED <<registryVars, storeVars, parserVars>>

NextNumbers ==
    \/ AsNumber
    \/ GuessType

\* The samples handed to deduceDateFormat: "31/12/2020", "01/01/2021",
\* "12/31/2020", "31/01/2021", "31/12" and the empty string.
SampleTexts ==
    { <<"3", "1", "/", "1", "2", "/", "2", "0", "2", "0">>,
      <<"0", "1", "/", "0", "1", "/", "2", "0", "2", "1">>,
      <<"1", "2", "/", "3", "1", "/", "2", "0", "2", "0">>,
      <<"3", "1", "/", "0", "1", "/", "2", "0", "2", "1">>,
      <<"3", "1", "/", "1", "2">>,
      <<>> }

MaxSamples == 2

RECURSIVE SampleLists(_)
SampleLists(n) ==
    IF n = 0 THEN {<<>>}
    ELSE SampleLists(n - 1)
            \cup {Append(data, sample) :
                     data \in {d \in SampleLists(n - 1) : Len(d) = n - 1},
                     sample \in SampleTexts}

\* The limit argument: not given, or the first sample only.
Limits == {0, 1}

InitDeduce ==
    /\ dateFormat \in {"", "dd/mm/YYYY"}
    /\ parseDateFn \in BOOLEAN
    /\ env = [year |-> 2020, timezoneOffset |-> 0]
    /\ lastParse = NoParse
    /\ decimalPoint = ""
    /\ text = [chars |-> <<>>, parses |-> {NaN}]
    /\ lastCall = NoConvert
    /\ samples \in [data : SampleLists(MaxSamples), limit : Limits, save : BOOLEAN]
    /\ lastDeduce = NoDeduce

DeduceDateFormat ==
    /\ LET call == deduceDateFormat(samples.data, samples.limit, samples.save,
                                    dateFormat)
       IN /\ lastDeduce' = [done |-> TRUE, format |-> call.format,
                            before |-> dateFormat]
          /\ dateFormat' = call.dateFormat
    /\ UNCHANGED <<parseDateFn, env, lastParse, decimalPoint, text, lastCall, samples>>
    /\ UNCHANGED <<registryVars, storeVars, parserVars>>

\* The strings handed to parseDate after a deduction: "13/02/2020",
\* "2020/01/02" and "hello".
LaterDateStrings ==
    { [groups |-> <<Group(2, 13), Group(2, 2), Group(4, 2020)>>,
       parses |-> {NaN}],
      [groups |-> <<Group(4, 2020), Group(2, 1), Group(2, 2)>>,
       parses |-> {NaN, Timestamp(DateUTC(2020, 0, 2))}],
      [groups |-> <<>>, parses |-> {NaN}] }

\* The dateFormatProp argument of these calls: none, or an override.
LaterFormatArguments == {"", "mm/dd/YYYY"}

\* A parseDate call that follows a deduceDateFormat call.
ParseDateAfterDeduce ==
    /\ lastDeduce.done
    /\ \E value \in LaterDateStrings, dateFormatProp \in LaterFormatArguments :
          IF parseDateFn
          THEN /\ \E result \in CallbackResults :
                     lastParse' = [done |-> TRUE, value |-> value,
                                   dateFormatProp |-> dateFormatProp,
                                   result |-> result, used |-> "",
                                   scanned |-> FALSE]
               /\ UNCHANGED dateFormat
          ELSE \E parsed \in value.parses :
                  LET call == parseDate(value, dateFormatProp, dateFormat, parsed, env)
                  IN /\ lastParse' = [done |-> TRUE, value |-> value,
                                      dateFormatProp |-> dateFormatProp,
                                      result |-> call.result, used |-> call.used,
                                      scanned |-> call.scanned]
                     /\ dateFormat' = call.dateFormat
    /\ UNCHANGED <<parseDateFn, env, decimalPoint, text, lastCall, samples, lastDeduce>>
    /\ UNCHANGED <<registryVars, storeVars, parserVars>>

NextDeduce ==
    \/ DeduceDateFormat
    \/ ParseDateAfterDeduce

\* A component that a specification leaves alone: nothing registered, a store
\* of an empty table, a parser caller without arguments, a default converter.
IdleRegistry == InitRegistry

IdleStore ==
    /\ columnsMeta = EmptyObject
    /\ storeTable = NewDataTable
    /\ lastStore = StoreCall("new", <<>>, <<>>, FALSE, NoExport)
    /\ IdleLifecycle

IdleParser ==
    /\ input = Provenance("new", <<>>, "", <<>>, <<>>, <<>>, FALSE)
    /\ table = NewDataTable
    /\ tableFrom = Provenance("new", <<>>, "", <<>>, <<>>, <<>>, FALSE)
    /\ columns = NoColumns
    /\ seriesOut = NoSeries
    /\ keyCounter = 0

IdleConverter ==
    /\ dateFormat = ""
    /\ parseDateFn = FALSE
    /\ env = [year |-> 2020, timezoneOffset |-> 0]
    /\ lastParse = NoParse
    /\ IdleNumbers

InitOfRegistry == InitRegistry /\ IdleStore /\ IdleParser /\ IdleConverter

InitOfStore == IdleRegistry /\ InitStore /\ IdleParser /\ IdleConverter

InitOfParser == IdleRegistry /\ IdleStore /\ InitParser /\ IdleConverter

InitOfConverter == IdleRegistry /\ IdleStore /\ IdleParser /\ InitConverter

InitOfEvents == IdleRegistry /\ InitEvents /\ IdleParser /\ IdleConverter

InitOfSerial == InitRegistry /\ InitSerial /\ IdleParser /\ IdleConverter

InitOfNumbers == IdleRegistry /\ IdleStore /\ IdleParser /\ InitNumbers

InitOfDeduce == IdleRegistry /\ IdleStore /\ IdleParser /\ InitDeduce

SpecRegistry == InitOfRegistry /\ [][AddStore]_vars

SpecStore == InitOfStore /\ [][NextStore]_vars

SpecParser == InitOfParser /\ [][NextParser]_vars

SpecConverter == InitOfConverter /\ [][ParseDate]_vars

SpecEvents == InitOfEvents /\ [][NextEvents]_vars

SpecSerial == InitOfSerial /\ [][NextSerial]_vars

SpecNumbers == InitOfNumbers /\ [][NextNumbers]_vars

SpecDeduce == InitOfDeduce /\ [][NextDeduce]_vars

(***************************************************************************)
(* Claims about the parser                                                 *)
(***************************************************************************)

\* The cell names of the rows from position i on that are not in `seen`, in
\* the order a scan of the rows meets them first.
RECURSIVE FirstSeenNames(_, _, _)
FirstSeenNames(rows, i, seen) ==
    IF i > Len(rows) THEN <<>>
    ELSE LET new == SelectNames(getCellNames(rows[i]),
                                Range(getCellNames(rows[i])) \ seen)
         IN new \o FirstSeenNames(rows, i + 1, seen \cup Range(new))

\* C6: getColumnsFromTable without presentation ordering returns the `id`
\* column first (element r is row r's identifier), then one column per
\* distinct cell name in first-seen row-scan order; every column is as long as
\* the table has rows, and element r of a column is row r's cell of that name,
\* or absent when row r has no such cell.
C6_IdFirstThenFirstSeenColumns ==
    (columns.done /\ ~columns.ordered) =>
        /\ columns.names = <<"id">> \o FirstSeenNames(table.rows, 1, {})
        /\ Len(columns.values) = Len(columns.names)
        /\ \A k \in 1..Len(columns.values) :
              /\ Len(columns.values[k]) = Len(table.rows)
              /\ \A r \in 1..Len(table.rows) :
                    columns.values[k][r] =
                        IF k = 1 THEN table.rows[r].id
                        ELSE IF HasOwn(table.rows[r].cells, columns.names[k])
                        THEN table.rows[r].cells.val[columns.names[k]]
                        ELSE UNDEFINED

\* The column of the given name among names/values.
ColumnNamed(names, values, name) == values[IndexOf(names, name) + 1]

SeriesTableBuilt ==
    /\ tableFrom.op = "series"
    /\ Len(table.rows) = Len(tableFrom.data)

\* The point array map in effect for the call that built the table.
MapInEffect ==
    IF tableFrom.pointArrayMap # <<>> THEN tableFrom.pointArrayMap
    ELSE IF tableFrom.type = "arearange" THEN <<"low", "high">>
    ELSE <<"x", "y">>

IsPair(point) == point.kind = "array" /\ Len(point.items) = 2

\* C8 as amended: with point array map ['x','y'] a positional point [a,b]
\* becomes one row with the cells {x: a, y: b}, and getSeriesOptionsFromTable
\* gives for that row the point options {id: <row id>, x: a, y: b}.
C8_PairBecomesPointOptions ==
    (SeriesTableBuilt /\ MapInEffect = <<"x", "y">>) =>
        \A i \in 1..Len(tableFrom.data) :
            IsPair(tableFrom.data[i]) =>
                /\ table.rows[i].cells.keys = <<"x", "y">>
                /\ table.rows[i].cells.val["x"] = tableFrom.data[i].items[1]
                /\ table.rows[i].cells.val["y"] = tableFrom.data[i].items[2]
                /\ seriesOut.done =>
                      /\ seriesOut.data[i].kind = "object"
                      /\ seriesOut.data[i].obj.keys = <<"id", "x", "y">>
                      /\ seriesOut.data[i].obj.val["id"] = table.rows[i].id
                      /\ seriesOut.data[i].obj.val["x"] = tableFrom.data[i].items[1]
                      /\ seriesOut.data[i].obj.val["y"] = tableFrom.data[i].items[2]

C8_Witness ==
    /\ SeriesTableBuilt
    /\ MapInEffect = <<"x", "y">>
    /\ seriesOut.done
    /\ \E i \in 1..Len(tableFrom.data) :
          tableFrom.data[i] = ArrayPoint(<<"3", "7">>)

\* C8 as claimed: the positional point [a,b] comes back as the positional
\* point [a,b].
C8_PairComesBackPositional ==
    (SeriesTableBuilt /\ MapInEffect = <<"x", "y">> /\ seriesOut.done) =>
        \A i \in 1..Len(tableFrom.data) :
            IsPair(tableFrom.data[i]) => seriesOut.data[i] = tableFrom.data[i]

\* Whether two points of the data are objects with the same `id`.
RepeatsAnId(data) ==
    \E i, j \in 1..Len(data) :
        /\ i < j
        /\ data[i].kind = "object" /\ HasOwn(data[i].obj, "id")
        /\ data[j].kind = "object" /\ HasOwn(data[j].obj, "id")
        /\ data[i].obj.val["id"] = data[j].obj.val["id"]

FirstName == IF Len(MapInEffect) >= 1 THEN MapInEffect[1] ELSE "x"

SecondName == IF Len(MapInEffect) >= 2 THEN MapInEffect[2] ELSE "y"

\* C9 as amended: a primitive point at position i becomes one row with the
\* cells {m0: i, m1: value}, m0 and m1 the first and second name of the point
\* array map in effect ('x' and 'y' for a name the map lacks); every point
\* becomes one row, in point order, unless an earlier point of the data
\* carries the same `id`.
C9_PrimitiveUsesMapNames ==
    (tableFrom.op = "series" /\ ~RepeatsAnId(tableFrom.data)) =>
        /\ Len(table.rows) = Len(tableFrom.data)
        /\ \A i \in 1..Len(tableFrom.data) :
              LET point == tableFrom.data[i]
                  cells == table.rows[i].cells
              IN /\ point.kind = "primitive" =>
                        /\ cells.keys = <<FirstName, SecondName>>
                        /\ cells.val[FirstName] = NameOfIndex(i - 1)
                        /\ cells.val[SecondName] = point.value
                 /\ point.kind = "array" =>
                        /\ Len(cells.keys) = Len(point.items)
                        /\ \A j \in 1..Len(point.items) :
                              cells.val[cells.keys[j]] = point.items[j]
                 /\ point.kind = "object" =>
                        /\ HasOwn(point.obj, "id") => table.rows[i].id = point.obj.val["id"]
                        /\ \A n \in Range(point.obj.keys) \ {"id"} :
                              Get(cells, n) = point.obj.val[n]

C9_Witness ==
    /\ tableFrom.op = "series"
    /\ MapInEffect = <<"low", "high">>
    /\ Len(tableFrom.data) = 2
    /\ tableFrom.data[2] = PrimitivePoint("3")
    /\ Len(table.rows) = 2

\* C9 as claimed: whatever the point array map, a primitive point at position
\* i becomes the row {x: i, y: value}, and every point becomes one row.
C9_PrimitiveIsXY ==
    tableFrom.op = "series" =>
        /\ Len(table.rows) = Len(tableFrom.data)
        /\ \A i \in 1..Len(tableFrom.data) :
              tableFrom.data[i].kind = "primitive" =>
                  /\ Range(table.rows[i].cells.keys) = {"x", "y"}
                  /\ table.rows[i].cells.val["x"] = NameOfIndex(i - 1)
                  /\ table.rows[i].cells.val["y"] = tableFrom.data[i].value

UnequalLengths(cols) ==
    \E j, k \in 1..Len(cols) : Len(cols[j]) # Len(cols[k])

\* C10: getTableFromColumns does not return a table for column arrays of
\* unequal lengths (it signals an error instead).
C10_UnequalColumnsReturnNoTable ==
    ~(tableFrom.op = "columns" /\ UnequalLengths(tableFrom.columns))

(***************************************************************************)
(* Claims about the store                                                  *)
(***************************************************************************)

\* C1: addStore(C) returns true exactly when no store is registered yet under
\* the name derived from C (and false otherwise).
C1_AddStoreTrueIffNameUnregistered ==
    lastAdd.cls # "none" => (lastAdd.ret <=> ~lastAdd.registered)

\* What getStore(n) returns, once it returns something, it returns after
\* every later addStore call.
FirstRegistrationWins ==
    [][\A dataStore \in StoreClasses :
          getStore(getName(dataStore)) # UNDEFINED =>
              getStore(getName(dataStore))' = getStore(getName(dataStore))]_vars

\* The number of places of the array that hold x.
Occurrences(arr, x) == Cardinality({i \in 1..Len(arr) : arr[i] = x})

\* C3: after setColumnOrder(names), names distinct, getColumnOrder() lists the
\* names at the positions 0..len(names)-1 in the given order, and every column
\* that has metadata exactly once.
C3_SetColumnOrderThenGetColumnOrder ==
    lastStore.op = "setColumnOrder" =>
        LET order == getColumnOrder(columnsMeta)
        IN /\ Len(order) >= Len(lastStore.names)
           /\ \A i \in 1..Len(lastStore.names) : order[i] = lastStore.names[i]
           /\ \A name \in Range(columnsMeta.keys) : Occurrences(order, name) = 1

\* The cell names of a table's rows.
TableColumnNames(t) == Range(FirstSeenNames(t.rows, 1, {}))

IsPermutationOf(names, S) == Range(names) = S /\ Len(names) = Cardinality(S)

\* C4: after setColumnOrder(names) with a permutation of the table's column
\* names, getColumnsForExport() returns the names in that order, without `id`;
\* in every export the columns without a place in the column order come after
\* those that have one.
C4_ExportFollowsColumnOrder ==
    /\ (/\ lastStore.op = "setColumnOrder"
        /\ IsPermutationOf(lastStore.names, TableColumnNames(storeTable))) =>
            getColumnsForExport(storeTable, columnsMeta, FALSE).columnNames
                = lastStore.names
    /\ lastStore.op = "getColumnsForExport" =>
          LET names == lastStore.exported.columnNames
              placed == Range(getColumnOrder(columnsMeta))
          IN \A p, q \in 1..Len(names) :
                (p < q /\ names[q] \in placed) => names[p] \in placed

\* The column of a table under a name: the identifiers for `id`, and else
\* each row's cell of that name, absent when the row has none.
TableColumn(t, name) ==
    [r \in 1..Len(t.rows) |->
        IF name = "id" THEN t.rows[r].id
        ELSE IF HasOwn(t.rows[r].cells, name) THEN t.rows[r].cells.val[name]
        ELSE UNDEFINED]

\* C5: getColumnsForExport returns as many values as names, columnValues[k]
\* is the table's column named columnNames[k], and columnNames is a
\* permutation of the table's column names, with `id` only when
\* includeIdColumn is set.
C5_ExportNamesAndValuesAligned ==
    lastStore.op = "getColumnsForExport" =>
        LET names == lastStore.exported.columnNames
            values == lastStore.exported.columnValues
        IN /\ Len(values) = Len(names)
           /\ \A k \in 1..Len(names) : values[k] = TableColumn(storeTable, names[k])
           /\ IsPermutationOf(names,
                  TableColumnNames(storeTable)
                      \cup (IF lastStore.includeIdColumn THEN {"id"} ELSE {}))

(***************************************************************************)
(* Claims about the converter                                              *)
(***************************************************************************)

\* C2: on a converter without a configured date format and without a
\* parseDate callback, the format a parseDate call without an override
\* detects is the active format afterwards: getDateFormat() returns it.
C2_DetectedFormatIsRemembered ==
    (/\ lastParse.done
     /\ ~parseDateFn
     /\ lastParse.dateFormatProp = ""
     /\ lastParse.scanned
     /\ lastParse.used # "") => getDateFormat = lastParse.used

(***************************************************************************)
(* Claims about the store's events                                         *)
(***************************************************************************)

\* The registrations of a type, in registration order.
RegisteredFor(type) ==
    SelectSeq(listeners, LAMBDA l : l.type = type)

\* C11: a load() call invokes every callback registered for `afterLoad` at
\* that moment exactly once, with the store's table, invokes no callback that
\* was unregistered or that is registered for another type (a failure event
\* among them), and leaves the table and the column metadata as they were.
C11_LoadEmitsOneAfterLoad ==
    [][lastStore'.op = "load" =>
          /\ Len(emitted') = Len(RegisteredFor("afterLoad"))
          /\ \A k \in 1..Len(emitted') :
                /\ emitted'[k].handle = RegisteredFor("afterLoad")[k].handle
                /\ emitted'[k].callback = RegisteredFor("afterLoad")[k].callback
                /\ emitted'[k].type = "afterLoad"
                /\ emitted'[k].table = storeTable
          /\ storeTable' = storeTable
          /\ columnsMeta' = columnsMeta]_vars

\* A load() of a store of a table with rows, with two callbacks registered
\* for `afterLoad`, one for a failure event, and one unregistered.
C11_Witness ==
    /\ lastStore.op = "load"
    /\ Len(emitted) = 2
    /\ Len(listeners) = 3
    /\ handles = 4
    /\ \E k \in 1..Len(listeners) : listeners[k].type = "loadError"
    /\ Len(storeTable.rows) > 0

(***************************************************************************)
(* Claims about the store's serialization                                  *)
(***************************************************************************)

\* Whether an addStore call that returned true registered the class.
IsRegistered(dataStore) ==
    \E name \in DOMAIN registry : registry[name] = dataStore

\* C12: for an instance of a class that a successful addStore registered, the
\* class tag of toJSON() is a name under which getStore returns the
\* instance's class; a write to the metadata of the returned object does not
\* change the store's column metadata.
C12_ClassTagFindsClassAndMetadataIsCopy ==
    [][/\ (json'.done /\ IsRegistered(storeClass)') =>
              registryLookup(registry', json'.class) = storeClass.cid
       /\ (json.done /\ json'.done /\ json'.metadata # json.metadata) =>
              columnsMeta' = columnsMeta]_vars

\* An instance of the registered class CSVDataStore, serialized, with the
\* returned metadata changed since.
C12_Witness ==
    /\ json.done
    /\ IsRegistered(storeClass)
    /\ storeClass.text = <<"CSV", "DataStore">>
    /\ json.class = <<"CSV">>
    /\ json.metadata # columnsMeta
    /\ lastStore.op = "changeJSON"

(***************************************************************************)
(* Claims about asNumber and guessType                                     *)
(***************************************************************************)

\* Whether a string is digit groups separated by single interior spaces,
\* then `,`, then fraction digits.
IsSpacedDecimal(str) ==
    \E k \in 2..(Len(str) - 1) :
        /\ str[k] = ","
        /\ IsDigit(str[1]) /\ IsDigit(str[k - 1])
        /\ \A i \in 1..(k - 1) :
              \/ IsDigit(str[i])
              \/ str[i] = " " /\ IsDigit(str[i - 1]) /\ IsDigit(str[i + 1])
        /\ \A i \in (k + 1)..Len(str) : IsDigit(str[i])

\* The number such a string writes: the spaces removed, `,` the decimal point.
SpacedDecimalNumber(str) ==
    LET k == CHOOSE i \in 1..Len(str) : str[i] = ","
    IN NumberOf(FALSE, SelectSeq(SubSeq(str, 1, k - 1), IsDigit),
                SubSeq(str, k + 1, Len(str)))

\* C13: with decimalPoint ',', asNumber of digit groups separated by interior
\* spaces, followed by ',' and fraction digits, is the number read without the
\* spaces and with ',' as the decimal point: asNumber("1 234,5") = 1234.5.
C13_SpacedDecimalIsRead ==
    (/\ lastCall.op = "asNumber"
     /\ decimalPoint = ","
     /\ IsSpacedDecimal(text.chars)) =>
        lastCall.number = SpacedDecimalNumber(text.chars)

\* The number the string guessType examines is read as: that of the trimmed
\* string, its inner spaces removed when it holds digits and spaces only, and
\* its decimal point normalized; an empty or blank string reads as no number.
ExaminedNumber ==
    LET trimInsideVal == trim(text.chars, TRUE, decimalPoint)
    IN IF trimInsideVal = <<>> THEN NotANumber ELSE toNumber(trimInsideVal)

\* C14 as amended: guessType of a string that reads as a number returns 'Date'
\* when the number is greater than 365*24*3600*1000 and 'number' otherwise, a
\* negative number of any magnitude included.
C14_DateAboveThreshold ==
    (lastCall.op = "guessType" /\ ~ExaminedNumber.nan) =>
        lastCall.type =
            IF /\ ~ExaminedNumber.neg
               /\ \/ DigitsGreater(ExaminedNumber.int, MillisecondsOfAYear)
                  \/ /\ ExaminedNumber.int = MillisecondsOfAYear
                     /\ ExaminedNumber.frac # <<>>
            THEN "Date"
            ELSE "number"

\* guessType("-1577836800000")
C14_Witness ==
    /\ lastCall.op = "guessType"
    /\ text.chars = <<"-", "1", "5", "7", "7", "8", "3", "6", "8", "0", "0", "0", "0", "0">>
    /\ lastCall.type = "number"

\* C14 as claimed: 'Date' whenever the magnitude of the number exceeds
\* 365*24*3600*1000, for positive and negative numbers alike.
C14_DateByMagnitude ==
    (lastCall.op = "guessType" /\ ~ExaminedNumber.nan) =>
        lastCall.type =
            IF \/ DigitsGreater(ExaminedNumber.int, MillisecondsOfAYear)
               \/ /\ ExaminedNumber.int = MillisecondsOfAYear
                  /\ ExaminedNumber.frac # <<>>
            THEN "Date"
            ELSE "number"

\* C15: guessType of a string that is no number returns 'Date' whenever
\* parseDate of the string yields a valid timestamp, 0 included, and 'string'
\* only when parseDate fails.
C15_DateWheneverParseDateSucceeds ==
    (lastCall.op = "guessType" /\ ExaminedNumber.nan /\ lastCall.called) =>
        lastCall.type = IF lastCall.dateVal.ok THEN "Date" ELSE "string"

\* Whether no number starts the string: it is empty or blank, or its first
\* character after the blanks is no digit, no `-` and no `.`, or it is a bare
\* `-` or `.`.
IsUnparsable(str) ==
    LET stripped == StripRight(StripLeft(str))
    IN \/ stripped = <<>>
       \/ ~IsDigit(stripped[1]) /\ stripped[1] \notin {"-", "."}
       \/ stripped \in {<<"-">>, <<".">>}

\* C18: asNumber of a string never returns NaN; it returns 0 for a string no
\* number starts, and the number written for a string of digits.
C18_AsNumberIsNeverNaN ==
    lastCall.op = "asNumber" =>
        /\ ~lastCall.number.nan
        /\ IsUnparsable(text.chars) =>
              lastCall.number = NumberOf(FALSE, <<>>, <<>>)
        /\ (/\ ~hasDecimalRegex(decimalPoint)
            /\ text.chars # <<>>
            /\ \A i \in 1..Len(text.chars) : IsDigit(text.chars[i])) =>
              lastCall.number = NumberOf(FALSE, text.chars, <<>>)

\* asNumber("abc")
C18_Witness ==
    /\ lastCall.op = "asNumber"
    /\ text.chars = <<"a", "b", "c">>
    /\ lastCall.number = NumberOf(FALSE, <<>>, <<>>)

\* The numeric components of a sample, as deduceDateFormat reads them.
ComponentsOf(sample) ==
    LET thing == split(separatorsToSpaces(StripRight(StripLeft(sample))))
    IN [k \in 1..Len(thing) |-> [len |-> Len(thing[k]), num |-> parseInt(thing[k])]]

\* Whether a sample is written with a day (1..31) at position `day`, a month
\* (1..12) at position `month`, and a four-digit year at the end.
IsWritten(sample, day, month) ==
    LET parts == ComponentsOf(sample)
    IN /\ Len(parts) = 3
       /\ parts[day].num \in 1..31
       /\ parts[month].num \in 1..12
       /\ parts[3].len = 4 /\ parts[3].num >= 1000

\* Whether all the samples examined are written so, and some day exceeds 12.
AllWritten(data, day, month) ==
    /\ data # <<>>
    /\ \A i \in 1..Len(data) : IsWritten(data[i], day, month)
    /\ \E i \in 1..Len(data) : ComponentsOf(data[i])[day].num > 12

\* C16: for a non-empty list of samples all written day/month/YYYY with some
\* day above 12, deduceDateFormat returns "dd/mm/YYYY", and for such a list
\* written month/day/YYYY it returns "mm/dd/YYYY", whatever the number of
\* samples, their order, and whether the day is the same in all of them.
C16_DayAbove12FixesTheFormat ==
    (lastDeduce.done /\ samples.limit = 0) =>
        /\ AllWritten(samples.data, 1, 2) => lastDeduce.format = "dd/mm/YYYY"
        /\ AllWritten(samples.data, 2, 1) => lastDeduce.format = "mm/dd/YYYY"

\* C17, on a converter without a parseDate callback: deduceDateFormat with
\* `save` makes the format it returns the active format, and a later parseDate
\* call without an override consults the pattern and parser of that format, or
\* of "YYYY/mm/dd" when the name is not registered, and of no other format;
\* without `save` the active format after the call is the one before it.
C17_SavedFormatIsUsedWithoutCallback ==
    [][   /\ lastDeduce'.done =>
                dateFormat' = IF samples'.save THEN lastDeduce'.format
                              ELSE lastDeduce'.before
          /\ (/\ lastDeduce.done
              /\ samples.save
              /\ lastParse' # lastParse
              /\ lastParse'.dateFormatProp = ""
              /\ ~parseDateFn) =>
                LET name == formatOrDefault(lastDeduce.format)
                    value == lastParse'.value
                IN /\ ~lastParse'.scanned
                   /\ IF regexMatches(name, value)
                      THEN /\ lastParse'.used = name
                           /\ lastParse'.result = formatParser(name, value, env.year)
                      ELSE lastParse'.used = ""
       ]_vars

\* deduceDateFormat(["31/12/2020", "01/01/2021"], undefined, true) on a
\* converter without a format, then parseDate("13/02/2020").
C17_Witness ==
    /\ lastDeduce = [done |-> TRUE, format |-> "dd/mm/YYYY", before |-> ""]
    /\ samples.save
    /\ dateFormat = "dd/mm/YYYY"
    /\ ~parseDateFn
    /\ lastParse.done
    /\ lastParse.dateFormatProp = ""
    /\ lastParse.used = "dd/mm/YYYY"
    /\ lastParse.result = Timestamp(DateUTC(2020, 1, 13))

\* C17 as claimed: the same of every converter, one with a parseDate callback
\* included.
C17_SavedFormatIsUsed ==
    [][   /\ lastDeduce'.done =>
                dateFormat' = IF samples'.save THEN lastDeduce'.format
                              ELSE lastDeduce'.before
          /\ (/\ lastDeduce.done
              /\ samples.save
              /\ lastParse' # lastParse
              /\ lastParse'.dateFormatProp = "") =>
                LET name == formatOrDefault(lastDeduce.format)
                    value == lastParse'.value
                IN /\ ~lastParse'.scanned
                   /\ IF regexMatches(name, value)
                      THEN /\ lastParse'.used = name
                           /\ lastParse'.result = formatParser(name, value, env.year)
                      ELSE lastParse'.used = ""
       ]_vars

\* C19: for every list of samples and every limit, deduceDateFormat returns
\* one of the five registered format names, never a name with a repeated,
\* missing or empty component.
C19_DeducedFormatIsRegistered ==
    lastDeduce.done => lastDeduce.format \in Range(FormatNames)

====
